---- MODULE Spec2Model ----
(***************************************************************************)
(* Minesweeper bot: the grid model (grid.js), the constraint solver and    *)
(* probability estimator (solver.js) and the game loop (main.js).          *)
(*                                                                         *)
(* Encodings                                                               *)
(*   - a cell is a record [state, value]; JS null is NULL (-1), so that    *)
(*     value stays an integer in every state;                              *)
(*   - a position is <<row, col>>, 0-based as in the source;               *)
(*   - an image is what vision.detectCellState would answer for each cell: *)
(*     [kind |-> "covered" | "flag" | "mine" | "number", num |-> n];       *)
(*     kind = "number" is JS `typeof state === 'number'`;                  *)
(*   - a JS array is a sequence; a function returning `Move | null`        *)
(*     returns a sequence of length 1 or 0;                                *)
(*   - probabilities and confidences are fixed-point integers in units of  *)
(*     1/Scale, exact for every quotient the estimator can form.           *)
(***************************************************************************)
EXTENDS Integers, Sequences, FiniteSets, TLC

VARIABLES
    cells,        \* grid.cells: [position -> cell]; the empty function is []
    gridInfo,     \* grid.gridInfo: [isNull, rows, cols]
    screen,       \* what grid.detectGrid derives from the game area: rows, cols,
                  \* cellSize, offsetX, offsetY
    config,       \* config.solver / config.scroll switches read by solver and loop
    img,          \* the image handed to the last grid.scanGrid (NoImage before any scan)
    lastOp,       \* name of the operation that produced the current state
    ret,          \* what that operation returned
    pc,           \* where the bot of main.js stands
    running,      \* MinesweeperBot.running
    stats,        \* MinesweeperBot.stats: [moves, revealed, flags]
    iterationsWithoutProgress,    \* local of run()
    lastRevealedCount,            \* local of run()
    move,         \* local of run(): the value of solver.getNextMove()
    log,          \* what the current iteration of the loop has done so far
    scrolled      \* history: actions.scroll() was called and no scan has started since

gridVars == <<cells, gridInfo, screen, config, img>>

botVars == <<pc, running, stats, iterationsWithoutProgress, lastRevealedCount, move, log,
             scrolled>>

vars == <<cells, gridInfo, screen, config, img, lastOp, ret,
          pc, running, stats, iterationsWithoutProgress, lastRevealedCount, move, log,
          scrolled>>

----------------------------------------------------------------------------
(* Bounds *)

Rows == 2          \* rows of the grids the solver is applied to
Cols == 3          \* columns of the grids the solver is applied to
MaxValue == 3      \* largest digit an image shows (the source allows 8)
StripCols == 2     \* columns of the 1-row screen of the grid life cycle
LoopCols == 4      \* columns of the 1-row screen of the bot
MaxMoves == 1      \* moves the bot dispatches before the run is cut off
MaxStall == 6      \* scans without progress before the run is cut off
MaxDispatches == 6 \* moves the bot dispatches on the screen that keeps its count
GridRows == 3      \* rows of the largest grid whose cells are looked up
GridCols == 3      \* columns of the largest grid whose cells are looked up
Beyond == 2        \* how far outside the grid the looked-up indices go
CoordRows == 2     \* rows of the largest grid whose coordinates are converted
CoordCols == 2     \* columns of the largest grid whose coordinates are converted
MaxCellSize == 3   \* largest cell size, in pixels, of those grids
MaxOffset == 1     \* largest offset of those grids, either way from 0

----------------------------------------------------------------------------
(* Program constants *)

NULL == -1                      \* JS null in cell.value

Scale == 840 * 840              \* fixed-point unit: 1.0 = Scale

One == Scale                    \* confidence 1.0 of a deduced move

Half == Scale \div 2            \* confidence 0.5 of a random guess

DefaultProbability == (15 * Scale) \div 100    \* 0.15

MaxRisk == Scale \div 5         \* 1 - config.solver.safeProbability = 1 - 0.8

NoGridInfo ==
    [isNull |-> TRUE, rows |-> 0, cols |-> 0, cellSize |-> 0, offsetX |-> 0, offsetY |-> 0]

DefaultCellSize == 80           \* config.cellSize

GameAreaLeft == 50              \* config.gameArea.left

GameAreaTop == 200              \* config.gameArea.top

NoCells == [p \in {} |-> [state |-> "unknown", value |-> NULL]]

NullCell == [state |-> "null", value |-> NULL]

NoImage == [p \in {} |-> [kind |-> "covered", num |-> NULL]]

NoRet ==
    [moves |-> <<>>, bool |-> FALSE, probs |-> <<>>, threw |-> FALSE,
     args |-> <<>>, cell |-> NullCell, neighbors |-> <<>>, point |-> <<>>, pos |-> <<>>]

DefaultConfig ==
    [useAdvancedLogic |-> TRUE, flagObviousMines |-> TRUE, scrollEnabled |-> TRUE]

NoProgressLimit == 5            \* `iterationsWithoutProgress > 5`

NoStats == [moves |-> 0, revealed |-> 0, flags |-> 0]

----------------------------------------------------------------------------
(* grid.js *)

Positions(gi) == (0 .. gi.rows - 1) \X (0 .. gi.cols - 1)

\* the cells in the order of `for row ... for col ...`
RowMajor(gi) ==
    [i \in 1 .. gi.rows * gi.cols |-> <<(i - 1) \div gi.cols, (i - 1) % gi.cols>>]

\* mutant: the neighbour to the right is left out, the one to the left taken twice
Offsets_NoRight ==
    << <<-1, -1>>, <<-1, 0>>, <<-1, 1>>, <<0, -1>>, <<0, -1>>, <<1, -1>>, <<1, 0>>, <<1, 1>> >>

\* (dr, dc) in the order of `for dr ... for dc ...`, without (0, 0)
Offsets ==
    << <<-1, -1>>, <<-1, 0>>, <<-1, 1>>, <<0, -1>>, <<0, 1>>, <<1, -1>>, <<1, 0>>, <<1, 1>> >>

InBounds(newRow, newCol, gi) ==
    newRow >= 0 /\ newRow < gi.rows /\ newCol >= 0 /\ newCol < gi.cols

\* cell.neighbors, computed by initializeGrid from the gridInfo of that moment;
\* gridInfo does not change while cells exist, so it is recomputed on use
getNeighborIndices(row, col) ==
    LET all == [i \in 1 .. 8 |-> <<row + Offsets[i][1], col + Offsets[i][2]>>]
    IN  SelectSeq(all, LAMBDA n : InBounds(n[1], n[2], gridInfo))

\* mutant: a negative index counts from the end
getCell_Wraps(row, col) ==
    LET r == IF row < 0 THEN row + gridInfo.rows ELSE row
        c == IF col < 0 THEN col + gridInfo.cols ELSE col
    IN  IF <<r, c>> \in DOMAIN cells THEN cells[<<r, c>>] ELSE NullCell

\* this.cells[row] and this.cells[row][col] are undefined outside the arrays
getCell(row, col) ==
    IF <<row, col>> \in DOMAIN cells THEN cells[<<row, col>>] ELSE NullCell

getNeighbors(row, col) ==
    IF getCell(row, col) = NullCell
    THEN <<>>
    ELSE LET idx == getNeighborIndices(row, col)
             withCell == [i \in 1 .. Len(idx) |->
                            [row |-> idx[i][1], col |-> idx[i][2],
                             cell |-> getCell(idx[i][1], idx[i][2])]]
         IN  SelectSeq(withCell, LAMBDA n : n.cell # NullCell)

\* the cells built by initializeGrid
InitialCells(gi) == [p \in Positions(gi) |-> [state |-> "unknown", value |-> NULL]]

\* mutant: a cell without a number gets value 0 instead of null
ScannedCell_KeepsValue(state) ==
    [state |-> IF state.kind = "number" THEN "revealed" ELSE state.kind,
     value |-> IF state.kind = "number" THEN state.num ELSE 0]

\* one cell of scanGrid: state and value from the classification of its pixel
ScannedCell(state) ==
    [state |-> IF state.kind = "number" THEN "revealed" ELSE state.kind,
     value |-> IF state.kind = "number" THEN state.num ELSE NULL]

ScannedCells(image, gi) == [p \in Positions(gi) |-> ScannedCell(image[p])]

----------------------------------------------------------------------------
(* solver.js: findSafeMoves and deduplicateMoves *)

\* mutant: every neighbour that is not revealed counts as covered
coveredNeighborsOf_NotRevealed(row, col) ==
    SelectSeq(getNeighbors(row, col), LAMBDA n : n.cell.state # "revealed")

coveredNeighborsOf(row, col) ==
    SelectSeq(getNeighbors(row, col), LAMBDA n : n.cell.state = "covered")

flaggedNeighborsOf(row, col) ==
    SelectSeq(getNeighbors(row, col), LAMBDA n : n.cell.state = "flag")

\* the cells findSafeMoves analyzes: revealed, with a number other than 0
IsNumbered(cell) ==
    ~(cell.state # "revealed" \/ cell.value = 0 \/ cell.value = NULL)

\* mutant: fires while flags are still missing
Rule1Applies_AtMost(mineCount, flaggedCount, coveredCount) ==
    flaggedCount <= mineCount /\ coveredCount > 0

\* Rule 1: all mines are flagged
Rule1Applies(mineCount, flaggedCount, coveredCount) ==
    flaggedCount = mineCount /\ coveredCount > 0

\* mutant: forgets the mines already flagged
Rule2Applies_NoFlags(mineCount, flaggedCount, coveredCount) ==
    coveredCount = mineCount /\ coveredCount > 0

\* Rule 2: the covered cells are exactly the remaining mines
Rule2Applies(mineCount, flaggedCount, coveredCount) ==
    coveredCount + flaggedCount = mineCount /\ coveredCount > 0

RevealMove(n, mineCount, row, col) ==
    [row |-> n.row, col |-> n.col, action |-> "reveal", confidence |-> One,
     reason |-> [kind |-> "all mines flagged", n |-> mineCount, at |-> <<row, col>>]]

FlagMove(n, coveredCount, row, col) ==
    [row |-> n.row, col |-> n.col, action |-> "flag", confidence |-> One,
     reason |-> [kind |-> "covered = remaining mines", n |-> coveredCount,
                 at |-> <<row, col>>]]

\* the moves pushed by one pass of the loop body for the cell (row, col)
MovesFromCell(row, col) ==
    LET cell == getCell(row, col)
        coveredNeighbors == coveredNeighborsOf(row, col)
        flaggedNeighbors == flaggedNeighborsOf(row, col)
        mineCount == cell.value
        flaggedCount == Len(flaggedNeighbors)
        coveredCount == Len(coveredNeighbors)
        reveals == IF Rule1Applies(mineCount, flaggedCount, coveredCount)
                   THEN [i \in 1 .. coveredCount |->
                            RevealMove(coveredNeighbors[i], mineCount, row, col)]
                   ELSE <<>>
        flags == IF Rule2Applies(mineCount, flaggedCount, coveredCount)
                 THEN [i \in 1 .. coveredCount |->
                          FlagMove(coveredNeighbors[i], coveredCount, row, col)]
                 ELSE <<>>
    IN  IF IsNumbered(cell) THEN reveals \o flags ELSE <<>>

\* the array `moves` after the first k cells of the row-major scan
RECURSIVE PushedMoves(_)
PushedMoves(k) ==
    IF k = 0
    THEN <<>>
    ELSE LET p == RowMajor(gridInfo)[k]
         IN  PushedMoves(k - 1) \o MovesFromCell(p[1], p[2])

SameKey(a, b) == a.row = b.row /\ a.col = b.col

\* mutant: a later move of equal confidence replaces the entry
ReplacesExisting_OrEqual(existing, mv) == mv.confidence >= existing.confidence

\* `!existing || move.confidence > existing.confidence`, for an existing entry
ReplacesExisting(existing, mv) == mv.confidence > existing.confidence

\* mutant: the array is returned as pushed
MapSet_Push(entries, mv) == Append(entries, mv)

\* moveMap after one more move: a Map keeps the position of a key's first set
MapSet(entries, mv) ==
    IF \E j \in 1 .. Len(entries) : SameKey(entries[j], mv)
    THEN [j \in 1 .. Len(entries) |->
            IF SameKey(entries[j], mv) /\ ReplacesExisting(entries[j], mv)
            THEN mv
            ELSE entries[j]]
    ELSE Append(entries, mv)

RECURSIVE MapAfter(_, _)
MapAfter(moves, k) ==
    IF k = 0 THEN <<>> ELSE MapSet(MapAfter(moves, k - 1), moves[k])

deduplicateMoves(moves) == MapAfter(moves, Len(moves))

\* `!grid.cells.length` returns before gridInfo is read
findSafeMoves ==
    IF DOMAIN cells = {}
    THEN <<>>
    ELSE deduplicateMoves(PushedMoves(gridInfo.rows * gridInfo.cols))

----------------------------------------------------------------------------
(* solver.js: calculateProbabilities, findBestGuess, findRandomCovered *)

Min(a, b) == IF a < b THEN a ELSE b

Max(a, b) == IF a > b THEN a ELSE b

RECURSIVE SumSeq(_)
SumSeq(s) == IF s = <<>> THEN 0 ELSE s[1] + SumSeq(Tail(s))

\* mutant: the flags already placed around the neighbour are not subtracted
LocalDensity_IgnoresFlags(n) ==
    LET neighborNeighbors == getNeighbors(n.row, n.col)
        coveredCount ==
            Len(SelectSeq(neighborNeighbors, LAMBDA nn : nn.cell.state = "covered"))
    IN  IF coveredCount > 0 THEN (n.cell.value * Scale) \div coveredCount ELSE 0

\* remainingMines / coveredCount of one revealed neighbour, 0 when it adds nothing
LocalDensity(n) ==
    LET neighborNeighbors == getNeighbors(n.row, n.col)
        coveredCount ==
            Len(SelectSeq(neighborNeighbors, LAMBDA nn : nn.cell.state = "covered"))
        flaggedCount ==
            Len(SelectSeq(neighborNeighbors, LAMBDA nn : nn.cell.state = "flag"))
        remainingMines == n.cell.value - flaggedCount
    IN  IF coveredCount > 0 THEN (remainingMines * Scale) \div coveredCount ELSE 0

\* mutant: the average is stored without Math.min / Math.max
ProbabilityOf_Unclamped(row, col) ==
    LET revealedNeighbors ==
            SelectSeq(getNeighbors(row, col),
                      LAMBDA n : n.cell.state = "revealed" /\ n.cell.value > 0)
        terms == [i \in 1 .. Len(revealedNeighbors) |-> LocalDensity(revealedNeighbors[i])]
    IN  [row |-> row, col |-> col,
         mineProbability |-> IF Len(revealedNeighbors) = 0 THEN DefaultProbability
                             ELSE SumSeq(terms) \div Len(revealedNeighbors),
         inexact |-> FALSE]

\* the entry pushed for the covered cell (row, col); `inexact` tells that the
\* double sum of the terms may differ from the exact sum in its last bits
ProbabilityOf(row, col) ==
    LET revealedNeighbors ==
            SelectSeq(getNeighbors(row, col),
                      LAMBDA n : n.cell.state = "revealed" /\ n.cell.value > 0)
        terms == [i \in 1 .. Len(revealedNeighbors) |-> LocalDensity(revealedNeighbors[i])]
        avgProbability == SumSeq(terms) \div Len(revealedNeighbors)
    IN  IF Len(revealedNeighbors) = 0
        THEN [row |-> row, col |-> col, mineProbability |-> DefaultProbability,
              inexact |-> FALSE]
        ELSE [row |-> row, col |-> col,
              mineProbability |-> Min(One, Max(0, avgProbability)),
              inexact |-> \E i \in 1 .. Len(terms) : terms[i] # terms[1]]

RECURSIVE ProbabilitiesUpTo(_)
ProbabilitiesUpTo(k) ==
    IF k = 0
    THEN <<>>
    ELSE LET p == RowMajor(gridInfo)[k]
         IN  IF getCell(p[1], p[2]).state # "covered"
             THEN ProbabilitiesUpTo(k - 1)
             ELSE Append(ProbabilitiesUpTo(k - 1), ProbabilityOf(p[1], p[2]))

calculateProbabilities == ProbabilitiesUpTo(gridInfo.rows * gridInfo.cols)

\* mutant: anything not revealed is a candidate
CoveredCandidate_NotRevealed(cell) == cell.state # "revealed"

\* the positions findRandomCovered may pick
CoveredCandidate(cell) == cell.state = "covered"

RandomMove(p) ==
    [row |-> p[1], col |-> p[2], action |-> "reveal", confidence |-> Half,
     reason |-> [kind |-> "Random guess", n |-> 0, at |-> <<-1, -1>>]]

\* mutant: no random guess is ever made
findRandomCovered_GivesUp == {<<>>}

\* the set of values findRandomCovered can return (Math.random picks the index)
findRandomCovered ==
    LET covered == {p \in Positions(gridInfo) : CoveredCandidate(getCell(p[1], p[2]))}
    IN  IF covered = {} THEN {<<>>} ELSE {<<RandomMove(p)>> : p \in covered}

GuessMove(best) ==
    [row |-> best.row, col |-> best.col, action |-> "reveal",
     confidence |-> One - best.mineProbability,
     reason |-> [kind |-> "Probability-based guess", n |-> 0, at |-> <<-1, -1>>]]

\* the outcomes of `best.mineProbability <= (1 - config.solver.safeProbability)`.
\* In doubles 1 - 0.8 is 0.19999999999999996, below 0.2: a probability of
\* exactly 1/5 passes only when the rounding of an inexact sum carries it down.
AcceptableRisk(best) ==
    IF best.mineProbability < MaxRisk THEN {TRUE}
    ELSE IF best.mineProbability > MaxRisk THEN {FALSE}
    ELSE IF best.inexact THEN {TRUE, FALSE}
    ELSE {FALSE}

\* the set of values findBestGuess can return. probabilities[0] after the sort
\* is an entry of least mineProbability; which one among equals depends on the
\* engine's sort and on rounding
findBestGuess ==
    LET probabilities == calculateProbabilities
        least == {i \in 1 .. Len(probabilities) :
                    \A j \in 1 .. Len(probabilities) :
                        probabilities[i].mineProbability <= probabilities[j].mineProbability}
    IN  IF ~config.useAdvancedLogic THEN findRandomCovered
        ELSE IF Len(probabilities) = 0 THEN findRandomCovered
        ELSE UNION {{IF ok THEN <<GuessMove(probabilities[i])>> ELSE <<>> :
                        ok \in AcceptableRisk(probabilities[i])} : i \in least}

----------------------------------------------------------------------------
(* solver.js: getNextMove and isSolved *)

\* mutant: reveals are always preferred to flags
PickSafeMove_RevealsFirst(safeMoves) ==
    LET reveals == SelectSeq(safeMoves, LAMBDA m : m.action = "reveal")
    IN  IF Len(reveals) > 0 THEN reveals[1] ELSE safeMoves[1]

\* flags[0] when flags are preferred and exist, else reveals[0], else safeMoves[0]
PickSafeMove(safeMoves) ==
    LET reveals == SelectSeq(safeMoves, LAMBDA m : m.action = "reveal")
        flags == SelectSeq(safeMoves, LAMBDA m : m.action = "flag")
    IN  IF config.flagObviousMines /\ Len(flags) > 0 THEN flags[1]
        ELSE IF Len(reveals) > 0 THEN reveals[1]
        ELSE safeMoves[1]

\* the set of values getNextMove can return
getNextMove ==
    LET safeMoves == findSafeMoves
    IN  IF Len(safeMoves) > 0 THEN {<<PickSafeMove(safeMoves)>>} ELSE findBestGuess

\* mutant: flags are required on every remaining cell
BlocksSolved_Unflagged(cell) == cell.state # "revealed" /\ cell.state # "flag"

\* the cell test of isSolved
BlocksSolved(cell) == cell.state = "covered"

isSolved ==
    ~\E p \in Positions(gridInfo) : BlocksSolved(getCell(p[1], p[2]))

----------------------------------------------------------------------------
(* Operations of the grid and of the solver *)

\* what detectGrid stores: the rows and columns that fit the game area
detectGrid ==
    [isNull |-> FALSE, rows |-> screen.rows, cols |-> screen.cols,
     cellSize |-> screen.cellSize, offsetX |-> screen.offsetX, offsetY |-> screen.offsetY]

\* a screen of rows x cols cells of the configured size at the corner of the
\* configured game area
ScreenOf(rows, cols) ==
    [rows |-> rows, cols |-> cols, cellSize |-> DefaultCellSize,
     offsetX |-> GameAreaLeft, offsetY |-> GameAreaTop]

\* cellSize / 2 rounded as Math.round does on the sum: half a pixel goes up
HalfCell(cellSize) == (cellSize + 1) \div 2

\* grid.cellToScreen(row, col): <<x, y>>, or <<>> for null
cellToScreen(row, col) ==
    IF gridInfo.isNull
    THEN <<>>
    ELSE <<gridInfo.offsetX + col * gridInfo.cellSize + HalfCell(gridInfo.cellSize),
           gridInfo.offsetY + row * gridInfo.cellSize + HalfCell(gridInfo.cellSize)>>

\* grid.screenToCell(x, y): <<row, col>>, or <<>> for null; \div is Math.floor
\* of the quotient
screenToCell(x, y) ==
    IF gridInfo.isNull
    THEN <<>>
    ELSE LET col == (x - gridInfo.offsetX) \div gridInfo.cellSize
             row == (y - gridInfo.offsetY) \div gridInfo.cellSize
         IN  IF row < 0 \/ row >= gridInfo.rows \/ col < 0 \/ col >= gridInfo.cols
             THEN <<>>
             ELSE <<row, col>>

\* a TypeError: `const { rows, cols } = grid.gridInfo` with gridInfo null
Threw == [NoRet EXCEPT !.threw = TRUE]

InitializeGrid ==
    LET gi == IF gridInfo.isNull THEN detectGrid ELSE gridInfo
    IN  /\ gridInfo' = gi
        /\ cells' = InitialCells(gi)
        /\ lastOp' = "initializeGrid"
        /\ ret' = NoRet
        /\ UNCHANGED <<screen, config, img>>
        /\ UNCHANGED botVars

ScanGrid(image) ==
    LET gi == IF gridInfo.isNull THEN detectGrid ELSE gridInfo
    IN  /\ DOMAIN image = Positions(gi)
        /\ gridInfo' = gi
        /\ cells' = ScannedCells(image, gi)
        /\ img' = image
        /\ lastOp' = "scanGrid"
        /\ ret' = NoRet
        /\ UNCHANGED <<screen, config>>
        /\ UNCHANGED botVars

Reset ==
    /\ cells' = NoCells
    /\ gridInfo' = NoGridInfo
    /\ lastOp' = "reset"
    /\ ret' = NoRet
    /\ UNCHANGED <<screen, config, img>>
    /\ UNCHANGED botVars

\* grid.getCell(row, col)
GetCell(row, col) ==
    /\ ret' = [NoRet EXCEPT !.args = <<row, col>>, !.cell = getCell(row, col)]
    /\ lastOp' = "getCell"
    /\ UNCHANGED gridVars
    /\ UNCHANGED botVars

\* grid.getNeighbors(row, col)
GetNeighbors(row, col) ==
    /\ ret' = [NoRet EXCEPT !.args = <<row, col>>, !.neighbors = getNeighbors(row, col)]
    /\ lastOp' = "getNeighbors"
    /\ UNCHANGED gridVars
    /\ UNCHANGED botVars

\* grid.cellToScreen(row, col)
CellToScreen(row, col) ==
    /\ ret' = [NoRet EXCEPT !.args = <<row, col>>, !.point = cellToScreen(row, col)]
    /\ lastOp' = "cellToScreen"
    /\ UNCHANGED gridVars
    /\ UNCHANGED botVars

\* grid.screenToCell(x, y)
ScreenToCell(x, y) ==
    /\ ret' = [NoRet EXCEPT !.args = <<x, y>>, !.pos = screenToCell(x, y)]
    /\ lastOp' = "screenToCell"
    /\ UNCHANGED gridVars
    /\ UNCHANGED botVars

FindSafeMoves ==
    /\ ret' = [NoRet EXCEPT !.moves = findSafeMoves]
    /\ lastOp' = "findSafeMoves"
    /\ UNCHANGED gridVars
    /\ UNCHANGED botVars

CalculateProbabilities ==
    /\ ret' = IF gridInfo.isNull THEN Threw
              ELSE [NoRet EXCEPT !.probs = calculateProbabilities]
    /\ lastOp' = "calculateProbabilities"
    /\ UNCHANGED gridVars
    /\ UNCHANGED botVars

FindBestGuess ==
    /\ IF gridInfo.isNull
       THEN ret' = Threw
       ELSE \E r \in findBestGuess : ret' = [NoRet EXCEPT !.moves = r]
    /\ lastOp' = "findBestGuess"
    /\ UNCHANGED gridVars
    /\ UNCHANGED botVars

FindRandomCovered ==
    /\ IF gridInfo.isNull
       THEN ret' = Threw
       ELSE \E r \in findRandomCovered : ret' = [NoRet EXCEPT !.moves = r]
    /\ lastOp' = "findRandomCovered"
    /\ UNCHANGED gridVars
    /\ UNCHANGED botVars

GetNextMove ==
    /\ IF gridInfo.isNull
       THEN ret' = Threw
       ELSE \E r \in getNextMove : ret' = [NoRet EXCEPT !.moves = r]
    /\ lastOp' = "getNextMove"
    /\ UNCHANGED gridVars
    /\ UNCHANGED botVars

IsSolved ==
    /\ ret' = IF gridInfo.isNull THEN Threw ELSE [NoRet EXCEPT !.bool = isSolved]
    /\ lastOp' = "isSolved"
    /\ UNCHANGED gridVars
    /\ UNCHANGED botVars

SolverCall ==
    \/ FindSafeMoves
    \/ CalculateProbabilities
    \/ FindBestGuess
    \/ FindRandomCovered
    \/ GetNextMove
    \/ IsSolved

----------------------------------------------------------------------------
(* Images *)

Covered == [kind |-> "covered", num |-> NULL]

\* what detectCellState answers for a cell that is not covered
Marks ==
    {[kind |-> k, num |-> NULL] : k \in {"flag", "mine"}}
        \cup {[kind |-> "number", num |-> n] : n \in 0 .. MaxValue}

\* every image of a rows x cols screen
AllImages(gi) == [Positions(gi) -> Marks \cup {Covered}]

Configs ==
    [useAdvancedLogic : BOOLEAN, flagObviousMines : BOOLEAN, scrollEnabled : BOOLEAN]

\* the switches the solver reads, with scrolling as config.js sets it
SolverConfigs == {c \in Configs : c.scrollEnabled}

\* the bot as its constructor leaves it, before main() calls init()
BotConstructed ==
    /\ pc = "main"
    /\ running = FALSE
    /\ stats = NoStats
    /\ iterationsWithoutProgress = 0
    /\ lastRevealedCount = 0
    /\ move = <<>>
    /\ log = <<>>
    /\ scrolled = FALSE

----------------------------------------------------------------------------
(* Spec: the life cycle of the grid module on a screen of one row, every     *)
(* image allowed at every scan, every solver function callable in between   *)

Init ==
    /\ cells = NoCells
    /\ gridInfo = NoGridInfo
    /\ screen = ScreenOf(1, StripCols)
    /\ config = DefaultConfig
    /\ img = NoImage
    /\ lastOp = "load"
    /\ ret = NoRet
    /\ BotConstructed

Next ==
    \/ InitializeGrid
    \/ \E image \in AllImages(detectGrid) : ScanGrid(image)
    \/ Reset
    \/ SolverCall

Spec == Init /\ [][Next]_vars

----------------------------------------------------------------------------
(* SpecCells: the cell lookups of the grid module on screens of one cell up  *)
(* to GridRows x GridCols, at every index from Beyond before the grid to    *)
(* Beyond after it, before and after initializeGrid, a scan and reset       *)

CellsInit ==
    /\ cells = NoCells
    /\ gridInfo = NoGridInfo
    /\ screen \in {ScreenOf(rows, cols) : rows \in 1 .. GridRows, cols \in 1 .. GridCols}
    /\ config = DefaultConfig
    /\ img = NoImage
    /\ lastOp = "load"
    /\ ret = NoRet
    /\ BotConstructed

\* the indices a caller may pass
Indices == (-Beyond .. screen.rows - 1 + Beyond) \X (-Beyond .. screen.cols - 1 + Beyond)

CellsNext ==
    \/ InitializeGrid
    \/ ScanGrid([p \in Positions(detectGrid) |-> Covered])
    \/ Reset
    \/ \E i \in Indices : GetCell(i[1], i[2])
    \/ \E i \in Indices : GetNeighbors(i[1], i[2])

SpecCells == CellsInit /\ [][CellsNext]_vars

----------------------------------------------------------------------------
(* SpecCoords: the coordinate conversions of the grid module on grids of up *)
(* to CoordRows x CoordCols cells of 1 to MaxCellSize pixels, at offsets    *)
(* from -MaxOffset to MaxOffset, for every cell and for every point from    *)
(* one cell before the grid to one cell after it. The conversions do not    *)
(* change the grid, so each is applied once, before or after initializeGrid *)

CoordsInit ==
    /\ cells = NoCells
    /\ gridInfo = NoGridInfo
    /\ screen \in [rows : 1 .. CoordRows, cols : 1 .. CoordCols,
                   cellSize : 1 .. MaxCellSize,
                   offsetX : -MaxOffset .. MaxOffset, offsetY : -MaxOffset .. MaxOffset]
    /\ config = DefaultConfig
    /\ img = NoImage
    /\ lastOp = "load"
    /\ ret = NoRet
    /\ BotConstructed

\* the points a caller may pass
Points ==
    (screen.offsetX - screen.cellSize .. screen.offsetX + (screen.cols + 1) * screen.cellSize)
        \X (screen.offsetY - screen.cellSize .. screen.offsetY + (screen.rows + 1) * screen.cellSize)

CoordsNext ==
    \/ lastOp = "load" /\ InitializeGrid
    \/ /\ lastOp \in {"load", "initializeGrid"}
       /\ \/ \E p \in Positions(screen) : CellToScreen(p[1], p[2])
          \/ \E q \in Points : ScreenToCell(q[1], q[2])

SpecCoords == CoordsInit /\ [][CoordsNext]_vars

----------------------------------------------------------------------------
(* SpecSolve: each solver function applied once to each scanned Rows x Cols  *)
(* grid whose first row shows anything and whose other rows are covered, to *)
(* the grid as initializeGrid leaves it, and to each scanned grid of one    *)
(* row of Cols cells. Sequences of calls are behaviours of Spec.            *)

\* the images of a board opened along its first row only
FirstRowImages(gi) ==
    {[p \in Positions(gi) |-> IF p[1] = 0 THEN top[p[2]] ELSE Covered] :
        top \in [0 .. gi.cols - 1 -> Marks \cup {Covered}]}

SolveInit ==
    /\ config \in SolverConfigs
    /\ ret = NoRet
    /\ BotConstructed
    /\ \/ /\ screen = ScreenOf(Rows, Cols)
          /\ gridInfo = detectGrid
          /\ \/ /\ img = NoImage
                /\ cells = InitialCells(gridInfo)
                /\ lastOp = "initializeGrid"
             \/ /\ img \in FirstRowImages(gridInfo)
                /\ cells = ScannedCells(img, gridInfo)
                /\ lastOp = "scanGrid"
       \/ /\ screen = ScreenOf(1, Cols)
          /\ gridInfo = detectGrid
          /\ img \in AllImages(gridInfo)
          /\ cells = ScannedCells(img, gridInfo)
          /\ lastOp = "scanGrid"

\* findBestGuess and getNextMove read the switches and are applied under each
\* setting; the other functions do not and are applied under config.js's
SolveNext ==
    /\ lastOp \in {"initializeGrid", "scanGrid"}
    /\ \/ FindBestGuess
       \/ GetNextMove
       \/ /\ config = DefaultConfig
          /\ (FindSafeMoves \/ CalculateProbabilities \/ FindRandomCovered \/ IsSolved)

SpecSolve == SolveInit /\ [][SolveNext]_vars

----------------------------------------------------------------------------
(* main.js: MinesweeperBot *)

\* grid.getStats of the cells c
StatsOf(c) ==
    [total |-> Cardinality(DOMAIN c),
     covered |-> Cardinality({p \in DOMAIN c : c[p].state = "covered"}),
     revealed |-> Cardinality({p \in DOMAIN c : c[p].state = "revealed"}),
     flags |-> Cardinality({p \in DOMAIN c : c[p].state = "flag"}),
     unknown |-> Cardinality({p \in DOMAIN c :
                                c[p].state \notin {"covered", "revealed", "flag"}})]

getStats == StatsOf(cells)

\* mutant: flagged cells count as revealed
ReachedScrollThreshold_CountsFlags(gridStats) ==
    10 * (gridStats.revealed + gridStats.flags) >= 7 * gridStats.total

\* `revealedPercent >= config.scroll.whenToScroll`, whenToScroll being 0.7
ReachedScrollThreshold(gridStats) == 10 * gridStats.revealed >= 7 * gridStats.total

\* mutant: the bot records the expected effect of its move in the grid
AfterDispatch_Predicts(m) ==
    [cells EXCEPT ![<<m.row, m.col>>].state = IF m.action = "flag" THEN "flag" ELSE "revealed",
                  ![<<m.row, m.col>>].value = IF m.action = "flag" THEN NULL ELSE 0]

\* grid.cells after the move m has been sent to actions.revealCell / placeFlag
AfterDispatch(m) == cells

\* init(): a failed capture ends the script, else the grid is detected and built
BotInit(captured) ==
    /\ pc = "main"
    /\ IF captured
       THEN /\ gridInfo' = detectGrid
            /\ cells' = InitialCells(detectGrid)
            /\ pc' = "run"
            /\ lastOp' = "initializeGrid"
       ELSE /\ pc' = "exited"
            /\ lastOp' = "exit"
            /\ UNCHANGED <<cells, gridInfo>>
    /\ ret' = NoRet
    /\ UNCHANGED <<screen, config, img>>
    /\ UNCHANGED <<running, stats, iterationsWithoutProgress, lastRevealedCount, move, log, scrolled>>

\* run(), up to the loop
Run ==
    /\ pc = "run"
    /\ running' = TRUE
    /\ iterationsWithoutProgress' = 0
    /\ lastRevealedCount' = 0
    /\ pc' = "while"
    /\ lastOp' = "run"
    /\ UNCHANGED <<gridVars, ret, stats, move, log, scrolled>>

\* `while (this.running)`: a new iteration starts, or the loop is left
LoopTest ==
    /\ pc = "while"
    /\ IF running
       THEN pc' = "capture" /\ log' = <<>> /\ move' = <<>>
       ELSE pc' = "cleanup" /\ UNCHANGED <<log, move>>
    /\ lastOp' = "while"
    /\ UNCHANGED <<gridVars, ret, running, stats, iterationsWithoutProgress,
                   lastRevealedCount, scrolled>>

\* mutant: the captured image goes to the solver without a scan
AfterCapture_SkipsScan == "solve"

\* what follows a successful capture: grid.scanGrid(img)
AfterCapture == "scan"

\* mutant: a failed capture ends the loop
AfterCaptureFailure_Stops == "cleanup"

\* what follows a failed capture: `continue`, back to the loop test
AfterCaptureFailure == "while"

\* vision.captureScreen(); without an image the iteration ends
Capture(captured) ==
    /\ pc = "capture"
    /\ IF captured
       THEN pc' = AfterCapture /\ log' = Append(log, "capture")
       ELSE pc' = AfterCaptureFailure /\ UNCHANGED log
    /\ lastOp' = "captureScreen"
    /\ UNCHANGED <<gridVars, ret, running, stats, iterationsWithoutProgress,
                   lastRevealedCount, move, scrolled>>

\* grid.scanGrid(img), grid.getStats(), the progress check and the recovery
\* scroll; image is what the captured screen shows
Scan(image) ==
    LET scanned == ScannedCells(image, gridInfo)
        gridStats == StatsOf(scanned)
        progress == gridStats.revealed # lastRevealedCount
        counted == IF progress THEN 0 ELSE iterationsWithoutProgress + 1
        recover == counted > NoProgressLimit /\ config.scrollEnabled
    IN  /\ pc = "scan"
        /\ DOMAIN image = Positions(gridInfo)
        /\ counted <= MaxStall
        /\ cells' = scanned
        /\ img' = image
        /\ lastRevealedCount' = IF progress THEN gridStats.revealed ELSE lastRevealedCount
        /\ iterationsWithoutProgress' = IF recover THEN 0 ELSE counted
        /\ log' = IF recover THEN log \o <<"scan", "scroll">> ELSE Append(log, "scan")
        /\ scrolled' = recover
        /\ pc' = IF recover THEN "while" ELSE "solve"
        /\ lastOp' = "scanGrid"
        /\ UNCHANGED <<gridInfo, screen, config, ret, running, stats, move>>

\* mutant: the board is never taken for solved
NoMoveOutcome_NeverSolved(solved, scroll) ==
    IF scroll
    THEN [pc |-> "while", events |-> <<"scroll">>]
    ELSE [pc |-> "cleanup", events |-> <<"stuck">>]

\* the `!move` branch: where the loop goes and what it does, given
\* solver.isSolved() and config.scroll.enabled
NoMoveOutcome(solved, scroll) ==
    IF solved
    THEN IF scroll
         THEN [pc |-> "while", events |-> <<"solved", "scroll">>]
         ELSE [pc |-> "cleanup", events |-> <<"solved">>]
    ELSE IF scroll
         THEN [pc |-> "while", events |-> <<"scroll">>]
         ELSE [pc |-> "cleanup", events |-> <<"stuck">>]

\* solver.getNextMove() and the branch taken when it returns no move
Solve ==
    /\ pc = "solve"
    /\ \E r \in getNextMove :
          /\ move' = r
          /\ IF r # <<>>
             THEN pc' = "act" /\ log' = Append(log, "solve") /\ UNCHANGED scrolled
             ELSE LET outcome == NoMoveOutcome(isSolved, config.scrollEnabled)
                  IN  /\ pc' = outcome.pc
                      /\ log' = Append(log, "solve") \o outcome.events
                      /\ scrolled' = \E i \in 1 .. Len(outcome.events) :
                                        outcome.events[i] = "scroll"
    /\ lastOp' = "getNextMove"
    /\ UNCHANGED <<gridVars, ret, running, stats, iterationsWithoutProgress,
                   lastRevealedCount>>

\* mutant: a flag is not counted as a move
StatsAfter_FlagsUncounted(m) ==
    [moves |-> stats.moves + (IF m.action = "reveal" THEN 1 ELSE 0),
     revealed |-> stats.revealed + (IF m.action = "reveal" THEN 1 ELSE 0),
     flags |-> stats.flags + (IF m.action = "flag" THEN 1 ELSE 0)]

\* this.stats after the dispatch of m: revealed++ or flags++, then moves++
StatsAfter(m) ==
    [moves |-> stats.moves + 1,
     revealed |-> stats.revealed + (IF m.action = "reveal" THEN 1 ELSE 0),
     flags |-> stats.flags + (IF m.action = "flag" THEN 1 ELSE 0)]

\* mutant: placing a flag counts as progress
CounterAfterDispatch_FlagResets(m) ==
    IF m.action = "flag" THEN 0 ELSE iterationsWithoutProgress

\* iterationsWithoutProgress after the dispatch of m: the dispatch code does
\* not touch it
CounterAfterDispatch(m) == iterationsWithoutProgress

\* the move is executed, the statistics are updated, and the board is
\* scrolled when enough of it is revealed; at most `limit` moves are followed
ActUpTo(limit) ==
    LET m == move[1]
        gridStats == getStats
        scrolls == config.scrollEnabled /\ ReachedScrollThreshold(gridStats)
    IN  /\ pc = "act"
        /\ stats.moves < limit
        /\ cells' = AfterDispatch(m)
        /\ stats' = StatsAfter(m)
        /\ log' = IF scrolls THEN log \o <<m.action, "scroll">> ELSE Append(log, m.action)
        /\ scrolled' = scrolls
        /\ pc' = "while"
        /\ lastOp' = "dispatch"
        /\ iterationsWithoutProgress' = CounterAfterDispatch(m)
        /\ UNCHANGED <<gridInfo, screen, config, img, ret, running,
                       lastRevealedCount, move>>

Act == ActUpTo(MaxMoves)

\* mutant: an exception ends the loop
AfterError_Stops == "cleanup"

\* where the catch block of the loop leaves the control: at the loop test
AfterError == "while"

\* an exception of a collaborator inside the try block: logged, next iteration
LoopError ==
    /\ pc \in {"capture", "scan", "solve", "act"}
    /\ pc' = AfterError
    /\ log' = Append(log, "error")
    /\ lastOp' = "catch"
    /\ UNCHANGED <<gridVars, ret, running, stats, iterationsWithoutProgress,
                   lastRevealedCount, move, scrolled>>

\* where run() is between `while (this.running)` and the end of an iteration
LoopPcs == {"while", "capture", "scan", "solve", "act"}

\* the volume-down handler of main(): bot.stop(), then exit(). stop() clears
\* this.running. exit() ends the script: outside the loop at once; inside the
\* loop, which the handler interrupts at pc, at the next step or after run()
\* has gone on for some steps (ScriptEnds).
Stop ==
    /\ pc # "exited"
    /\ pc \in LoopPcs => running
    /\ running' = FALSE
    /\ pc' = IF pc \in LoopPcs THEN pc ELSE "exited"
    /\ lastOp' = "stop"
    /\ UNCHANGED <<gridVars, ret, stats, iterationsWithoutProgress,
                   lastRevealedCount, move, log, scrolled>>

\* the exit() of the handler takes effect while run() is still going on:
\* inside the loop this.running is false only after the handler has run
ScriptEnds ==
    /\ pc \in LoopPcs \cup {"cleanup"}
    /\ ~running
    /\ pc' = "exited"
    /\ lastOp' = "exit"
    /\ UNCHANGED <<gridVars, ret, running, stats, iterationsWithoutProgress,
                   lastRevealedCount, move, log, scrolled>>

\* cleanup(), after the loop
Cleanup ==
    /\ pc = "cleanup"
    /\ pc' = "stopped"
    /\ lastOp' = "cleanup"
    /\ UNCHANGED <<gridVars, ret, running, stats, iterationsWithoutProgress,
                   lastRevealedCount, move, log, scrolled>>

----------------------------------------------------------------------------
(* SpecRun: main() on a screen of one row: init(), then run() with any of   *)
(* the images of a row opened from the left at every scan, and stop() at    *)
(* any moment                                                               *)

\* the image of a row opened from the left up to column j (exclusive): empty
\* cells, then left (an empty cell or a flag), then the number b at column
\* j - 1; column j shows right (covered or a flag), the rest is covered
OpenedImage(gi, j, left, b, right) ==
    [p \in Positions(gi) |->
        IF p[2] < j - 2 THEN [kind |-> "number", num |-> 0]
        ELSE IF p[2] = j - 2 THEN left
        ELSE IF p[2] = j - 1 THEN [kind |-> "number", num |-> b]
        ELSE IF p[2] = j THEN right
        ELSE Covered]

\* the images the bot captures of its screen
LoopImages(gi) ==
    {OpenedImage(gi, j, left, b, right) :
        j \in 0 .. gi.cols,
        left \in {[kind |-> "number", num |-> 0], [kind |-> "flag", num |-> NULL]},
        b \in {1, 2},
        right \in {Covered, [kind |-> "flag", num |-> NULL]}}

\* the solver settings of config.js, with scrolling enabled or disabled
RunConfigs ==
    {c \in Configs : /\ c.useAdvancedLogic = DefaultConfig.useAdvancedLogic
                     /\ c.flagObviousMines = DefaultConfig.flagObviousMines}

RunInit ==
    /\ cells = NoCells
    /\ gridInfo = NoGridInfo
    /\ screen = ScreenOf(1, LoopCols)
    /\ config \in RunConfigs
    /\ img = NoImage
    /\ lastOp = "load"
    /\ ret = NoRet
    /\ BotConstructed

RunNext ==
    \/ \E captured \in BOOLEAN : BotInit(captured)
    \/ Run
    \/ LoopTest
    \/ \E captured \in BOOLEAN : Capture(captured)
    \/ \E image \in LoopImages(gridInfo) : Scan(image)
    \/ Solve
    \/ Act
    \/ LoopError
    \/ Stop
    \/ ScriptEnds
    \/ Cleanup

SpecRun == RunInit /\ [][RunNext]_vars

----------------------------------------------------------------------------
(* SpecStall: the bot on a screen that keeps showing a 1 with the cell next *)
(* to it covered or flagged, or else a solved board, for up to              *)
(* MaxDispatches moves                                                      *)

\* the images the bot captures of that screen
StallImages(gi) ==
    {OpenedImage(gi, 1, Covered, 1, right) :
        right \in {Covered, [kind |-> "flag", num |-> NULL]}}
        \cup {OpenedImage(gi, gi.cols, [kind |-> "number", num |-> 0], 1, Covered)}

StallNext ==
    \/ \E captured \in BOOLEAN : BotInit(captured)
    \/ Run
    \/ LoopTest
    \/ \E captured \in BOOLEAN : Capture(captured)
    \/ \E image \in StallImages(gridInfo) : Scan(image)
    \/ Solve
    \/ ActUpTo(MaxDispatches)
    \/ LoopError
    \/ Stop
    \/ ScriptEnds
    \/ Cleanup

SpecStall == RunInit /\ [][StallNext]_vars

----------------------------------------------------------------------------
(* Vocabulary of the properties, defined on the grid itself and not through  *)
(* the solver's operators                                                    *)

Grid == DOMAIN cells

Adjacent(p, q) ==
    /\ p # q
    /\ p[1] - q[1] \in {-1, 0, 1}
    /\ p[2] - q[2] \in {-1, 0, 1}

Around(p, state) == {q \in Grid : Adjacent(p, q) /\ cells[q].state = state}

\* N > 0 on a revealed cell
Numbered(p) == cells[p].state = "revealed" /\ cells[p].value > 0

\* F = N and U > 0
ExhaustedAt(p) ==
    /\ Numbered(p)
    /\ Cardinality(Around(p, "flag")) = cells[p].value
    /\ Around(p, "covered") # {}

\* F + U = N and U > 0
SaturatedAt(p) ==
    /\ Numbered(p)
    /\ Cardinality(Around(p, "flag")) + Cardinality(Around(p, "covered")) = cells[p].value
    /\ Around(p, "covered") # {}

ProducesMoves(p) == ExhaustedAt(p) \/ SaturatedAt(p)

Target(m) == <<m.row, m.col>>

Targets(moves) == {Target(moves[i]) : i \in 1 .. Len(moves)}

\* p comes before q in the row-major scan
Before(p, q) == p[1] < q[1] \/ (p[1] = q[1] /\ p[2] < q[2])

\* the source cells whose rule names the target t
SourcesOf(t) == {p \in Grid : ProducesMoves(p) /\ t \in Around(p, "covered")}

MinedAround(p, layout) == Cardinality({q \in layout : Adjacent(p, q)})

\* the grid is consistent with the mine layout: every revealed value counts
\* the mined neighbours and every cell in one of minedStates is mined
ConsistentWith(layout, minedStates) ==
    /\ \A p \in Grid : cells[p].state \in minedStates => p \in layout
    /\ \A p \in Grid : cells[p].state = "revealed" => MinedAround(p, layout) = cells[p].value

Returned(ops) == lastOp \in ops /\ ~ret.threw

----------------------------------------------------------------------------
(* Properties of findSafeMoves *)

\* C1: on a grid consistent with a mine layout in which every 'flag' cell is
\* mined, no 'reveal' move returned by findSafeMoves targets a mined cell.
C1_RevealsAreSafe ==
    Returned({"findSafeMoves"}) =>
        \A i \in 1 .. Len(ret.moves) :
            ret.moves[i].action = "reveal" =>
                \A layout \in SUBSET Grid :
                    (Target(ret.moves[i]) \in layout) => ~ConsistentWith(layout, {"flag"})

\* a reveal was returned on a consistent grid that hides a mine under a covered cell
C1_Witness ==
    /\ Returned({"findSafeMoves"})
    /\ \E i \in 1 .. Len(ret.moves) : ret.moves[i].action = "reveal"
    /\ \E layout \in SUBSET Grid :
          /\ ConsistentWith(layout, {"flag"})
          /\ \E p \in layout : cells[p].state = "covered"

\* C2: on a grid consistent with a mine layout in which every 'flag' and every
\* 'mine' cell is mined, every 'flag' move returned by findSafeMoves targets a
\* mined cell. The layouts are restricted to those with no mine under a
\* revealed cell, which only weakens the statement.
C2_FlagsAreMines ==
    Returned({"findSafeMoves"}) =>
        \A i \in 1 .. Len(ret.moves) :
            ret.moves[i].action = "flag" =>
                \A layout \in SUBSET Grid :
                    (/\ Target(ret.moves[i]) \notin layout
                     /\ \A p \in layout : cells[p].state # "revealed")
                        => ~ConsistentWith(layout, {"flag", "mine"})

\* C3: Rule A. When a revealed cell with N > 0 has F = N flagged and U > 0
\* covered neighbours and no other cell produces moves, findSafeMoves returns
\* exactly U moves, one per covered neighbour, each 'reveal' with confidence 1.0.
C3_RuleA ==
    Returned({"findSafeMoves"}) =>
        \A p \in Grid :
            (ExhaustedAt(p) /\ \A q \in Grid \ {p} : ~ProducesMoves(q)) =>
                /\ Len(ret.moves) = Cardinality(Around(p, "covered"))
                /\ Targets(ret.moves) = Around(p, "covered")
                /\ \A i \in 1 .. Len(ret.moves) :
                      ret.moves[i].action = "reveal" /\ ret.moves[i].confidence = One

\* N = 2, F = 2, U = 3 gave exactly 3 reveals
C3_Witness ==
    /\ Returned({"findSafeMoves"})
    /\ Len(ret.moves) = 3
    /\ \E p \in Grid :
          /\ ExhaustedAt(p)
          /\ cells[p].value = 2
          /\ Cardinality(Around(p, "covered")) = 3
          /\ \A q \in Grid \ {p} : ~ProducesMoves(q)

\* C4: Rule B. When a revealed cell with N > 0 has F + U = N with U > 0 and no
\* other cell produces moves, findSafeMoves returns exactly U moves, one per
\* covered neighbour, each 'flag' with confidence 1.0.
C4_RuleB ==
    Returned({"findSafeMoves"}) =>
        \A p \in Grid :
            (SaturatedAt(p) /\ \A q \in Grid \ {p} : ~ProducesMoves(q)) =>
                /\ Len(ret.moves) = Cardinality(Around(p, "covered"))
                /\ Targets(ret.moves) = Around(p, "covered")
                /\ \A i \in 1 .. Len(ret.moves) :
                      ret.moves[i].action = "flag" /\ ret.moves[i].confidence = One

\* N = 3, F = 1, U = 2 gave exactly 2 flags
C4_Witness ==
    /\ Returned({"findSafeMoves"})
    /\ Len(ret.moves) = 2
    /\ \E p \in Grid :
          /\ SaturatedAt(p)
          /\ cells[p].value = 3
          /\ Cardinality(Around(p, "flag")) = 1
          /\ \A q \in Grid \ {p} : ~ProducesMoves(q)

\* C5: every move returned by findSafeMoves, findBestGuess, findRandomCovered
\* and getNextMove targets a cell whose state is 'covered'.
C5_MovesTargetCovered ==
    Returned({"findSafeMoves", "findBestGuess", "findRandomCovered", "getNextMove"}) =>
        \A i \in 1 .. Len(ret.moves) :
            /\ Target(ret.moves[i]) \in Grid
            /\ cells[Target(ret.moves[i])].state = "covered"

\* a random guess was returned on a grid that also shows a flag, a mine and a number
C5_Witness ==
    /\ Returned({"findRandomCovered"})
    /\ Len(ret.moves) = 1
    /\ \E p \in Grid : cells[p].state = "flag"
    /\ \E p \in Grid : cells[p].state = "mine"
    /\ \E p \in Grid : cells[p].state = "revealed"

\* C6: findSafeMoves returns at most one move per (row, col) target.
C6_OneMovePerTarget ==
    Returned({"findSafeMoves"}) =>
        \A i, j \in 1 .. Len(ret.moves) :
            Target(ret.moves[i]) = Target(ret.moves[j]) => i = j

\* two source cells imply a move for the same covered cell
C6_Witness ==
    /\ Returned({"findSafeMoves"})
    /\ \E t \in Targets(ret.moves) : Cardinality(SourcesOf(t)) >= 2

\* C7: the move kept for a target is the one emitted first: it comes from the
\* first source cell in row-major order whose rule names the target, and has
\* that source's action; nothing is raised.
C7_FirstSourceWins ==
    lastOp = "findSafeMoves" =>
        /\ ~ret.threw
        /\ \A i \in 1 .. Len(ret.moves) :
              LET m == ret.moves[i]
                  first == CHOOSE p \in SourcesOf(Target(m)) :
                              \A q \in SourcesOf(Target(m)) \ {p} : Before(p, q)
              IN  /\ SourcesOf(Target(m)) # {}
                  /\ m.reason.at = first
                  /\ m.action = IF ExhaustedAt(first) THEN "reveal" ELSE "flag"

\* one source asks to reveal a cell and a later one asks to flag it, or the reverse
C7_Witness ==
    /\ lastOp = "findSafeMoves"
    /\ \E t \in Targets(ret.moves) :
          \E p, q \in SourcesOf(t) : ExhaustedAt(p) /\ SaturatedAt(q)

----------------------------------------------------------------------------
(* Properties of the bot *)

\* C8: the solver functions and the dispatch of the chosen move leave the
\* state and value of every cell unchanged: the cells change only in
\* grid.initializeGrid and grid.scanGrid.
C8_OnlyScansWriteCells ==
    [][cells' # cells => lastOp' \in {"initializeGrid", "scanGrid"}]_vars

\* a move has been dispatched and its target is still covered in the grid
C8_Witness ==
    /\ lastOp = "dispatch"
    /\ move # <<>>
    /\ cells[Target(move[1])].state = "covered"
    /\ stats.moves = 1

----------------------------------------------------------------------------
(* Properties of the grid *)

\* C9: after initializeGrid and after any sequence of scanGrid calls, value is
\* non-null exactly on the revealed cells; a numeric classification leaves the
\* cell revealed with that number, any other leaves its state with value null.
C9_ValueIffRevealed ==
    /\ \A p \in Grid : (cells[p].value # NULL) <=> (cells[p].state = "revealed")
    /\ (lastOp = "scanGrid") =>
          \A p \in Grid :
              IF img[p].kind = "number"
              THEN cells[p] = [state |-> "revealed", value |-> img[p].num]
              ELSE cells[p] = [state |-> img[p].kind, value |-> NULL]

\* a scan over a scanned grid turned a numbered cell into a cell without a number
C9_Witness ==
    /\ lastOp = "scanGrid"
    /\ \E p, q \in Grid :
          /\ img[p].kind = "number" /\ cells[p].value = img[p].num
          /\ img[q].kind = "flag" /\ cells[q].value = NULL

----------------------------------------------------------------------------
(* Properties of calculateProbabilities and findBestGuess *)

CoveredCells == {p \in Grid : cells[p].state = "covered"}

\* the revealed neighbours of p with value > 0
NumberedAround(p) == {q \in Grid : Adjacent(p, q) /\ Numbered(q)}

\* 840 * (value - flagged neighbours) / (covered neighbours) of the numbered
\* cell q; 840 is a multiple of every count from 1 to 8
Density840(q) ==
    (cells[q].value - Cardinality(Around(q, "flag")))
        * (840 \div Cardinality(Around(q, "covered")))

RECURSIVE DensitySum840(_)
DensitySum840(S) ==
    IF S = {} THEN 0
    ELSE LET q == CHOOSE x \in S : TRUE IN Density840(q) + DensitySum840(S \ {q})

\* x, in units of 1/Scale, is the mean of the densities around p clamped to [0, 1]
IsClampedMean(x, p) ==
    LET total == DensitySum840(NumberedAround(p))
        count == Cardinality(NumberedAround(p))
    IN  IF total <= 0 THEN x = 0
        ELSE IF total >= 840 * count THEN x = Scale
        ELSE x * 840 * count = total * Scale

\* the entries of a returned list of probabilities, as a set of positions
EntryCells(probs) == {<<probs[i].row, probs[i].col>> : i \in 1 .. Len(probs)}

\* C11: calculateProbabilities returns exactly one entry per covered cell;
\* its mineProbability is 0.15 when the cell has no revealed neighbour with
\* value > 0, and otherwise the mean over those neighbours n of
\* (n.value - flagged neighbours of n) / (covered neighbours of n), clamped
\* to [0, 1].
C11_OneMeanPerCovered ==
    Returned({"calculateProbabilities"}) =>
        /\ Len(ret.probs) = Cardinality(CoveredCells)
        /\ EntryCells(ret.probs) = CoveredCells
        /\ \A i \in 1 .. Len(ret.probs) :
              LET p == <<ret.probs[i].row, ret.probs[i].col>>
              IN  IF NumberedAround(p) = {}
                  THEN ret.probs[i].mineProbability * 100 = 15 * Scale
                  ELSE IsClampedMean(ret.probs[i].mineProbability, p)

\* the returned list holds an entry that is a proper mean of two different
\* densities and an entry clamped to 1
C11_Witness ==
    /\ Returned({"calculateProbabilities"})
    /\ \E i \in 1 .. Len(ret.probs) :
          LET p == <<ret.probs[i].row, ret.probs[i].col>>
          IN  /\ \E q, r \in NumberedAround(p) : Density840(q) # Density840(r)
              /\ ret.probs[i].mineProbability \notin {0, Scale}
    /\ \E i \in 1 .. Len(ret.probs) :
          LET p == <<ret.probs[i].row, ret.probs[i].col>>
          IN  /\ NumberedAround(p) # {}
              /\ DensitySum840(NumberedAround(p)) > 840 * Cardinality(NumberedAround(p))

\* the covered cell p has one revealed neighbour with value > 0: a 1 whose
\* only covered neighbour is p
OnlyNextToClosedOne(p) ==
    /\ cells[p].state = "covered"
    /\ \E q \in Grid :
          /\ NumberedAround(p) = {q}
          /\ cells[q].value = 1
          /\ Around(q, "covered") = {p}

\* C12 as stated: a covered cell whose only revealed numbered neighbour is a
\* 1 with exactly one covered neighbour, the cell itself, receives
\* mineProbability 1.0 from calculateProbabilities.
C12_ClosedOneIsCertain ==
    Returned({"calculateProbabilities"}) =>
        \A i \in 1 .. Len(ret.probs) :
            OnlyNextToClosedOne(<<ret.probs[i].row, ret.probs[i].col>>) =>
                ret.probs[i].mineProbability = Scale

\* C12, amended: the same when the 1 has no flagged neighbour. Each flag
\* around the 1 is subtracted from it, so with flags the result is 0.
C12_ClosedOneWithoutFlags ==
    Returned({"calculateProbabilities"}) =>
        \A i \in 1 .. Len(ret.probs) :
            LET p == <<ret.probs[i].row, ret.probs[i].col>>
            IN  OnlyNextToClosedOne(p) =>
                    ret.probs[i].mineProbability =
                        IF \A q \in NumberedAround(p) : Around(q, "flag") = {}
                        THEN Scale
                        ELSE 0

\* probabilities were returned for a covered cell next to such a 1 without flags
C12_Witness ==
    /\ Returned({"calculateProbabilities"})
    /\ \E i \in 1 .. Len(ret.probs) :
          LET p == <<ret.probs[i].row, ret.probs[i].col>>
          IN  /\ OnlyNextToClosedOne(p)
              /\ \A q \in NumberedAround(p) : Around(q, "flag") = {}
              /\ ret.probs[i].mineProbability = Scale

\* the least mineProbability in a list of probabilities
LeastProbability(probs) ==
    CHOOSE x \in {probs[i].mineProbability : i \in 1 .. Len(probs)} :
        \A j \in 1 .. Len(probs) : x <= probs[j].mineProbability

\* C13: with useAdvancedLogic enabled and a covered cell, findBestGuess looks
\* at the least mineProbability p: when p exceeds 1 - safeProbability it
\* returns null, otherwise a 'reveal' of a cell whose mineProbability is p,
\* with confidence 1 - p.
C13_GuessesTheMinimum ==
    (Returned({"findBestGuess"}) /\ config.useAdvancedLogic /\ CoveredCells # {}) =>
        LET probs == calculateProbabilities
            p == LeastProbability(probs)
        IN  IF 5 * p > Scale
            THEN ret.moves = <<>>
            ELSE /\ Len(ret.moves) = 1
                 /\ ret.moves[1].action = "reveal"
                 /\ ret.moves[1].confidence = Scale - p
                 /\ \E i \in 1 .. Len(probs) :
                       /\ Target(ret.moves[1]) = <<probs[i].row, probs[i].col>>
                       /\ probs[i].mineProbability = p

----------------------------------------------------------------------------
(* Properties of the loop of MinesweeperBot.run *)

\* the estimator has no acceptable guess on the scanned grid: a cell is
\* covered, no rule yields a move, and the least mineProbability is above
\* 1 - safeProbability
NoAcceptableGuess ==
    /\ config.useAdvancedLogic
    /\ CoveredCells # {}
    /\ \A p \in Grid : ~ProducesMoves(p)
    /\ 5 * LeastProbability(calculateProbabilities) > Scale

\* C14: when the estimator reports no acceptable guess and no other move
\* exists, the controller falls back to revealing a random covered cell with
\* confidence 0.5, marked as a blind guess, instead of ending the iteration
\* without a move.
C14_FallsBackToRandom ==
    [][(pc = "solve" /\ lastOp' = "getNextMove" /\ NoAcceptableGuess) =>
          /\ move' # <<>>
          /\ move'[1].action = "reveal"
          /\ 2 * move'[1].confidence = Scale
          /\ move'[1].reason.kind = "Random guess"
          /\ Target(move'[1]) \in CoveredCells
          /\ pc' = "act"]_vars

\* C15: with scrolling disabled, the scan that makes 5 consecutive scans with
\* an unchanged revealed count takes the loop to the failure stop, and no
\* further iteration follows.
C15_StallStopsTheLoop ==
    [][(pc = "scan" /\ lastOp' = "scanGrid" /\ ~config.scrollEnabled
            /\ iterationsWithoutProgress' >= NoProgressLimit) =>
          pc' = "cleanup"]_vars

\* the scan being made leaves the revealed count as the last scan recorded it
\* and is the n-th such scan in a row
NthUnchangedScan(n) ==
    /\ pc = "scan"
    /\ lastOp' = "scanGrid"
    /\ Cardinality({p \in DOMAIN cells' : cells'[p].state = "revealed"}) = lastRevealedCount
    /\ iterationsWithoutProgress + 1 = n

\* the iteration ends in a recovery scroll: counter reset, no solve, no move
RecoveryScroll ==
    /\ pc' = "while"
    /\ iterationsWithoutProgress' = 0
    /\ log' # <<>>
    /\ log'[Len(log')] = "scroll"

\* C16: with scrolling enabled, in the iteration whose scan is the 5th in a
\* row with an unchanged revealed count, the loop issues a recovery scroll,
\* resets the no-progress counter to 0 and dispatches no move.
C16_RecoversAfterFive ==
    [][(config.scrollEnabled /\ NthUnchangedScan(NoProgressLimit)) => RecoveryScroll]_vars

----------------------------------------------------------------------------
(* Properties of getNextMove *)

\* the moves findSafeMoves returns on the grid, and those with a given action
SafeMoves(action) ==
    {findSafeMoves[i] : i \in {k \in 1 .. Len(findSafeMoves) : findSafeMoves[k].action = action}}

----------------------------------------------------------------------------
(* Properties of the loop: the end of an iteration *)

\* the step is the call of getNextMove in the loop, and it returns no move
NoMoveStep == pc = "solve" /\ lastOp' = "getNextMove" /\ move' = <<>>

LastEvent(events) == IF events = <<>> THEN "none" ELSE events[Len(events)]

Dispatched(events) == \E i \in 1 .. Len(events) : events[i] \in {"reveal", "flag"}

\* C18: in an iteration where getNextMove returns no move, a solved board
\* makes the loop scroll and continue when scrolling is enabled and stop
\* with success when it is disabled; an unsolved board with scrolling
\* disabled makes it stop as stuck; no reveal or flag is dispatched.
C18_NoMoveBranches ==
    [][NoMoveStep =>
          /\ (CoveredCells = {} /\ config.scrollEnabled) =>
                (pc' = "while" /\ LastEvent(log') = "scroll")
          /\ (CoveredCells = {} /\ ~config.scrollEnabled) =>
                (pc' = "cleanup" /\ LastEvent(log') = "solved")
          /\ (CoveredCells # {} /\ ~config.scrollEnabled) =>
                (pc' = "cleanup" /\ LastEvent(log') = "stuck")
          /\ ~Dispatched(log')
          /\ stats' = stats]_vars

\* the loop has just stopped with success on a solved board
C18_Witness ==
    /\ lastOp = "getNextMove"
    /\ move = <<>>
    /\ CoveredCells = {}
    /\ ~config.scrollEnabled
    /\ pc = "cleanup"
    /\ LastEvent(log) = "solved"

\* revealed / total of the scanned grid is at least 0.7
MostlyRevealed ==
    10 * Cardinality({p \in Grid : cells[p].state = "revealed"}) >= 7 * Cardinality(Grid)

\* C19: with scrolling enabled, an iteration that dispatches a move scrolls
\* after the move if and only if revealed / total of that iteration's scan is
\* at least whenToScroll (0.7); with scrolling disabled it never does.
C19_ScrollAfterMove ==
    [][(pc = "act" /\ lastOp' = "dispatch") =>
          /\ Dispatched(log')
          /\ (LastEvent(log') = "scroll") <=> (config.scrollEnabled /\ MostlyRevealed)
          /\ LastEvent(log') \in {"scroll", "reveal", "flag"}]_vars

\* a move was dispatched on a board revealed to 70% or more, and the scroll followed
C19_Witness ==
    /\ lastOp = "dispatch"
    /\ config.scrollEnabled
    /\ MostlyRevealed
    /\ Len(log) > 1
    /\ log[Len(log) - 1] \in {"reveal", "flag"}
    /\ LastEvent(log) = "scroll"

\* the step takes the loop out of its iterations, towards cleanup()
LeavesLoop == pc # "cleanup" /\ pc' = "cleanup"

\* C20: the loop is left only (a) at its test after stop() was requested,
\* (b) when no move is available, the board is not solved and scrolling is
\* disabled (stuck), or (c) when no move is available, the board is solved
\* and scrolling is disabled; a failed capture and an exception inside an
\* iteration lead to the next iteration; stuck is the only failure stop.
C20_StopsOnlyWhen ==
    [][/\ LeavesLoop =>
            \/ pc = "while" /\ ~running /\ log' = log
            \/ NoMoveStep /\ ~config.scrollEnabled /\ CoveredCells # {}
                  /\ LastEvent(log') = "stuck"
            \/ NoMoveStep /\ ~config.scrollEnabled /\ CoveredCells = {}
                  /\ LastEvent(log') = "solved"
       /\ (lastOp' = "catch" \/ (lastOp' = "captureScreen" /\ pc' # "scan")) =>
            pc' = "while"
       /\ LastEvent(log') = "stuck" /\ log' # log =>
            (LeavesLoop /\ NoMoveStep /\ CoveredCells # {})]_vars

\* the loop has just been left as stuck while the bot was still running
C20_Witness ==
    /\ pc = "cleanup"
    /\ running
    /\ lastOp = "getNextMove"
    /\ CoveredCells # {}
    /\ LastEvent(log) = "stuck"

----------------------------------------------------------------------------
(* Properties of the loop: order of the steps *)

C22_StopIsCooperative ==
    [][/\ (pc \in LoopPcs /\ lastOp' = "stop") => pc' = pc
       /\ (~running /\ pc \in LoopPcs \ {"while"}) => pc' \in LoopPcs \cup {"cleanup"}
       /\ (~running /\ pc = "while") => pc' = "cleanup"
       /\ pc = "cleanup" => (pc' = "stopped" /\ lastOp' = "cleanup")
       /\ lastOp' = "cleanup" => pc = "cleanup"]_vars

\* the step is a scan of the loop that follows a scroll
ScanAfterScroll == pc = "scan" /\ lastOp' = "scanGrid" /\ scrolled

\* the grid model is empty, as grid.reset() leaves it
Discarded == cells = NoCells /\ gridInfo.isNull

\* the grid model is as initializeGrid has just built it
Rebuilt == ~gridInfo.isNull /\ cells = InitialCells(gridInfo)

\* C23: whenever the controller has issued a scroll, the grid model (cells and
\* gridInfo) has been discarded, or discarded and rebuilt, by the time the
\* next scan starts.
C23_ScrollDiscardsGrid ==
    [][ScanAfterScroll => (Discarded \/ Rebuilt)]_vars

----------------------------------------------------------------------------
(* Properties of the cell lookups *)

\* a grid exists: initializeGrid has built the cells and reset has not emptied them
HasGrid == ~gridInfo.isNull /\ Grid = Positions(gridInfo)

\* the in-bounds cells at Chebyshev distance 1 of p
Ring(p) == {q \in Positions(gridInfo) : Adjacent(p, q)}

\* the positions a list of neighbours names
NeighborCells(list) == {<<list[i].row, list[i].col>> : i \in 1 .. Len(list)}

\* how many of the two coordinates of p lie on the border of the grid
OnBorder(p) ==
    (IF p[1] \in {0, gridInfo.rows - 1} THEN 1 ELSE 0)
        + (IF p[2] \in {0, gridInfo.cols - 1} THEN 1 ELSE 0)

\* C24: getCell never raises and returns null for every index outside the
\* rows x cols grid (and the cell inside it); for an in-bounds cell
\* getNeighbors returns exactly the in-bounds cells at Chebyshev distance 1,
\* each once and with its cell object, never the cell itself: 3 at a corner,
\* 5 on an edge and 8 in the interior of a grid of at least 3x3.
C24_CellLookups ==
    /\ lastOp \in {"getCell", "getNeighbors"} => ~ret.threw
    /\ (lastOp = "getCell" /\ HasGrid) =>
          /\ ret.args \notin Positions(gridInfo) => ret.cell = NullCell
          /\ ret.args \in Positions(gridInfo) => ret.cell = cells[ret.args]
    /\ (lastOp = "getCell" /\ ~HasGrid) => ret.cell = NullCell
    /\ (lastOp = "getNeighbors" /\ HasGrid /\ ret.args \in Positions(gridInfo)) =>
          /\ NeighborCells(ret.neighbors) = Ring(ret.args)
          /\ Len(ret.neighbors) = Cardinality(Ring(ret.args))
          /\ ret.args \notin NeighborCells(ret.neighbors)
          /\ \A i \in 1 .. Len(ret.neighbors) :
                ret.neighbors[i].cell = cells[<<ret.neighbors[i].row, ret.neighbors[i].col>>]
          /\ (gridInfo.rows >= 3 /\ gridInfo.cols >= 3) =>
                Len(ret.neighbors) = CASE OnBorder(ret.args) = 2 -> 3
                                       [] OnBorder(ret.args) = 1 -> 5
                                       [] OTHER -> 8

\* getNeighbors has answered with eight cells for the interior cell of a
\* 3x3 grid
C24_Witness ==
    /\ HasGrid
    /\ gridInfo.rows = 3 /\ gridInfo.cols = 3
    /\ lastOp = "getNeighbors"
    /\ ret.args = <<1, 1>>
    /\ Len(ret.neighbors) = 8

----------------------------------------------------------------------------
(* Properties of the estimator: the guard on coveredCount *)

\* the revealed neighbours with value > 0 that calculateProbabilities reads for p
RevealedNeighbors(p) ==
    SelectSeq(getNeighbors(p[1], p[2]),
              LAMBDA n : n.cell.state = "revealed" /\ n.cell.value > 0)

\* coveredCount of the loop over revealedNeighbors, for the neighbour n
CoveredCountOf(n) ==
    Len(SelectSeq(getNeighbors(n.row, n.col), LAMBDA nn : nn.cell.state = "covered"))

\* C25: in calculateProbabilities the guard coveredCount > 0 is always
\* true: every covered cell u is itself among the neighbours of each of its
\* revealed neighbours n with value > 0, so n has a covered neighbour and
\* contributes its term.
C25_GuardAlwaysTrue ==
    Returned({"calculateProbabilities"}) =>
        \A u \in CoveredCells :
            \A i \in 1 .. Len(RevealedNeighbors(u)) :
                LET n == RevealedNeighbors(u)[i]
                IN  /\ u \in NeighborCells(getNeighbors(n.row, n.col))
                    /\ CoveredCountOf(n) > 0

\* calculateProbabilities has run on a grid where a covered cell has two
\* revealed neighbours with value > 0
C25_Witness ==
    /\ Returned({"calculateProbabilities"})
    /\ \E u \in CoveredCells : Len(RevealedNeighbors(u)) >= 2

----------------------------------------------------------------------------
(* Properties of the solver without the probability-based guess *)

\* C27: with useAdvancedLogic disabled getNextMove returns null only when
\* isSolved() is true, that is when no cell is covered; the `!move` branch of
\* the loop then never takes its 'stuck' exit, with or without scrolling.
C27_NullOnlyWhenSolved ==
    (Returned({"getNextMove"}) /\ ~config.useAdvancedLogic /\ ret.moves = <<>>) =>
        /\ isSolved
        /\ CoveredCells = {}
        /\ \A scroll \in BOOLEAN :
              LastEvent(NoMoveOutcome(isSolved, scroll).events) # "stuck"

\* getNextMove has returned null with useAdvancedLogic disabled
C27_Witness ==
    /\ Returned({"getNextMove"})
    /\ ~config.useAdvancedLogic
    /\ ret.moves = <<>>
    /\ \E p \in Grid : cells[p].state = "flag"

----------------------------------------------------------------------------
(* Properties of the loop: the no-progress counter and the statistics *)

\* the step is a scan of the loop, and the revealed count it finds
LoopScan == pc = "scan" /\ lastOp' = "scanGrid"

RevealedFound == Cardinality({p \in DOMAIN cells' : cells'[p].state = "revealed"})

\* C26: the dispatch of a flag (or of any move) leaves the no-progress counter
\* alone; only a scan changes it, and it goes to 0 only when that scan's
\* revealed count differs from lastRevealedCount or when the recovery scroll
\* is issued; with scrolling enabled an unchanged scan beyond the limit ends
\* in the recovery scroll however many flags were placed in between.
C26_FlagsAreNoProgress ==
    [][/\ lastOp' = "dispatch" => iterationsWithoutProgress' = iterationsWithoutProgress
       /\ ~LoopScan => iterationsWithoutProgress' = iterationsWithoutProgress
       /\ (LoopScan /\ iterationsWithoutProgress' = 0) =>
             (RevealedFound # lastRevealedCount \/ RecoveryScroll)
       /\ (LoopScan /\ RevealedFound = lastRevealedCount /\ ~RecoveryScroll) =>
             iterationsWithoutProgress' = iterationsWithoutProgress + 1
       /\ (LoopScan /\ RevealedFound = lastRevealedCount /\ config.scrollEnabled
             /\ iterationsWithoutProgress >= NoProgressLimit) => RecoveryScroll]_vars

\* the recovery scroll has just been issued after six moves that were all flags
C26_Witness ==
    /\ config.scrollEnabled
    /\ lastOp = "scanGrid"
    /\ pc = "while"
    /\ LastEvent(log) = "scroll"
    /\ stats.flags = NoProgressLimit + 1
    /\ stats.revealed = 0
    /\ lastRevealedCount = 1

FailedCapture == pc = "capture" /\ lastOp' = "captureScreen" /\ log' = log

\* C29: an iteration whose capture fails does nothing else: no scan, no
\* solve, no reveal, flag or scroll; the cells, the stats, lastRevealedCount
\* and the no-progress counter are unchanged, and the loop goes back to its
\* test instead of stopping.
C29_FailedCaptureRetries ==
    [][FailedCapture =>
          /\ pc' = "while"
          /\ log' = <<>>
          /\ running' = running
          /\ scrolled' = scrolled
          /\ cells' = cells
          /\ gridInfo' = gridInfo
          /\ stats' = stats
          /\ lastRevealedCount' = lastRevealedCount
          /\ iterationsWithoutProgress' = iterationsWithoutProgress]_vars

\* a capture has failed in the middle of a run, and the loop is back at its test
C29_Witness ==
    /\ lastOp = "captureScreen"
    /\ pc = "while"
    /\ running
    /\ log = <<>>
    /\ stats.moves > 0
    /\ iterationsWithoutProgress > 0

----------------------------------------------------------------------------
(* Properties of the coordinate conversions *)

\* the point lies in the rectangle of the rows x cols grid
InsideGrid(q) ==
    /\ q[1] >= gridInfo.offsetX
    /\ q[1] < gridInfo.offsetX + gridInfo.cols * gridInfo.cellSize
    /\ q[2] >= gridInfo.offsetY
    /\ q[2] < gridInfo.offsetY + gridInfo.rows * gridInfo.cellSize

\* C30: screenToCell applied to the centre that cellToScreen returns for an
\* in-bounds (row, col) returns {row, col}, for every positive cellSize and
\* all integer offsets; screenToCell returns null for every point outside
\* the rows x cols grid.
C30_RoundTrip ==
    (lastOp = "screenToCell" /\ ~gridInfo.isNull) =>
        /\ \A p \in Positions(gridInfo) :
              ret.args = cellToScreen(p[1], p[2]) => ret.pos = p
        /\ ~InsideGrid(ret.args) => ret.pos = <<>>

====
